---- MODULE Spec2Model ----
(***************************************************************************)
(* mkdocs-autolinks-plugin: the filename index, the link rewriter and the  *)
(* diagnostics report of mkdocs_autolinks_plugin/plugin.py.                *)
(*                                                                         *)
(* A text (a Python str) is a sequence of one-character strings.  A path   *)
(* is a sequence of components, each a text; os.path.join is Join below.   *)
(* A Python dict is the sequence of its <<key, value>> pairs in insertion  *)
(* order.                                                                  *)
(***************************************************************************)
EXTENDS Integers, Sequences, FiniteSets, TLC

VARIABLES
    filename_to_abs_path,   \* self.filename_to_abs_path: None or [items |-> dict]
    missing_filenames,      \* self.missing_filenames: defaultdict(Counter)
    duplicate_filenames,    \* self.duplicate_filenames: defaultdict(list)
    report_file,            \* contents of mkdocs-autolinks-plugin-report.md
    files,                  \* the file collection of the build under way
    calls,                  \* log of the on_page_markdown calls made so far
    builds                  \* number of on_post_build calls made so far

vars == <<filename_to_abs_path, missing_filenames, duplicate_filenames,
          report_file, files, calls, builds>>

-----------------------------------------------------------------------------
(* Bounds of the model.                                                    *)

MaxCalls == 2

MaxBuilds == 1

MaxLinks == 2

-----------------------------------------------------------------------------
(* Python values.                                                          *)

None == [none |-> TRUE]

NoGroup == <<"None">>

Min(S) == CHOOSE i \in S : \A j \in S : i <= j

Max(S) == CHOOSE i \in S : \A j \in S : j <= i

\* dict: key lookup, d[k], and d[k] = v (a new key goes last).
DictKeys(d) == [i \in 1..Len(d) |-> d[i][1]]

DictHas(d, k) == \E i \in 1..Len(d) : d[i][1] = k

DictGet(d, k) == d[CHOOSE i \in 1..Len(d) : d[i][1] = k][2]

DictSet(d, k, v) ==
    IF DictHas(d, k)
    THEN [i \in 1..Len(d) |-> IF d[i][1] = k THEN <<k, v>> ELSE d[i]]
    ELSE Append(d, <<k, v>>)

\* defaultdict: d[k] with the default inserted when k is missing.
DefaultGet(d, k, default) == IF DictHas(d, k) THEN DictGet(d, k) ELSE default

-----------------------------------------------------------------------------
(* str methods.                                                            *)

Whitespace == {" ", "\t", "\n", "\r", "\f"}

RECURSIVE LStrip(_)
LStrip(s) ==
    IF s # <<>> /\ Head(s) \in Whitespace THEN LStrip(Tail(s)) ELSE s

RECURSIVE RStrip(_)
RStrip(s) ==
    IF s # <<>> /\ s[Len(s)] \in Whitespace
    THEN RStrip(SubSeq(s, 1, Len(s) - 1)) ELSE s

\* str.strip()
Strip(s) == RStrip(LStrip(s))

IsAt(t, i, w) == i + Len(w) - 1 <= Len(t) /\ SubSeq(t, i, i + Len(w) - 1) = w

\* str.replace(old, new), old non-empty: every non-overlapping occurrence,
\* scanning left to right.
RECURSIVE ReplaceFrom(_, _, _, _)
ReplaceFrom(t, i, old, new) ==
    IF i > Len(t) THEN <<>>
    ELSE IF IsAt(t, i, old) THEN new \o ReplaceFrom(t, i + Len(old), old, new)
    ELSE <<t[i]>> \o ReplaceFrom(t, i + 1, old, new)

StrReplace(t, old, new) == ReplaceFrom(t, 1, old, new)

RECURSIVE StrJoin(_, _)
StrJoin(sep, parts) ==
    IF parts = <<>> THEN <<>>
    ELSE IF Len(parts) = 1 THEN parts[1]
    ELSE parts[1] \o sep \o StrJoin(sep, Tail(parts))

\* The character U+0060, which a TLA+ string cannot hold.
Backtick == "GRAVE"

\* The printable ASCII characters, from code point 32 on.
Ascii ==
    <<" ", "!", "\"", "#", "$", "%", "&", "'", "(", ")", "*", "+", ",",
      "-", ".", "/", "0", "1", "2", "3", "4", "5", "6", "7", "8", "9", ":",
      ";", "<", "=", ">", "?", "@", "A", "B", "C", "D", "E", "F", "G", "H",
      "I", "J", "K", "L", "M", "N", "O", "P", "Q", "R", "S", "T", "U", "V",
      "W", "X", "Y", "Z", "[", "\\", "]", "^", "_", Backtick, "a", "b", "c",
      "d", "e", "f", "g", "h", "i", "j", "k", "l", "m", "n", "o", "p", "q",
      "r", "s", "t", "u", "v", "w", "x", "y", "z", "{", "|", "}", "~">>

\* ord(c)
Ord(c) == 31 + (CHOOSE i \in 1..Len(Ascii) : Ascii[i] = c)

\* str < str: lexicographic on code points.
RECURSIVE StrLess(_, _)
StrLess(a, b) ==
    IF b = <<>> THEN FALSE
    ELSE IF a = <<>> THEN TRUE
    ELSE IF Head(a) = Head(b) THEN StrLess(Tail(a), Tail(b))
    ELSE Ord(Head(a)) < Ord(Head(b))

\* sorted(keys): ascending.
RECURSIVE SortedInsert(_, _)
SortedInsert(s, k) ==
    IF s = <<>> THEN <<k>>
    ELSE IF StrLess(k, Head(s)) THEN <<k>> \o s
    ELSE <<Head(s)>> \o SortedInsert(Tail(s), k)

RECURSIVE Sorted(_)
Sorted(s) ==
    IF s = <<>> THEN <<>>
    ELSE SortedInsert(Sorted(SubSeq(s, 1, Len(s) - 1)), s[Len(s)])

\* str(n) for a natural number.
Digit(n) == <<"0", "1", "2", "3", "4", "5", "6", "7", "8", "9">>[n + 1]

RECURSIVE Str(_)
Str(n) == IF n < 10 THEN <<Digit(n)>> ELSE Str(n \div 10) \o <<Digit(n % 10)>>

-----------------------------------------------------------------------------
(* urllib.parse.quote and os.path.                                         *)

Hex(n) == <<"0", "1", "2", "3", "4", "5", "6", "7", "8", "9",
            "A", "B", "C", "D", "E", "F">>[n + 1]

\* quote's always-safe characters and its default safe="/".
QuoteSafe(c) ==
    \/ c \in {"_", ".", "-", "~", "/"}
    \/ Ord(c) \in 48..57 \/ Ord(c) \in 65..90 \/ Ord(c) \in 97..122

RECURSIVE quote(_)
quote(s) ==
    IF s = <<>> THEN <<>>
    ELSE (IF QuoteSafe(Head(s)) THEN <<Head(s)>>
          ELSE <<"%", Hex(Ord(Head(s)) \div 16), Hex(Ord(Head(s)) % 16)>>)
         \o quote(Tail(s))

\* os.path.join of a path's components.
Join(path) == StrJoin(<<"/">>, path)

basename(path) == path[Len(path)]

dirname(path) == SubSeq(path, 1, Len(path) - 1)

\* Length of the common prefix of two component lists.
RECURSIVE CommonPrefix(_, _)
CommonPrefix(a, b) ==
    IF a # <<>> /\ b # <<>> /\ Head(a) = Head(b)
    THEN 1 + CommonPrefix(Tail(a), Tail(b)) ELSE 0

\* os.path.relpath(path, start), as text.
relpath(path, start) ==
    LET i == CommonPrefix(start, path)
        rel_list == [k \in 1..(Len(start) - i) |-> <<".", ".">>]
                        \o SubSeq(path, i + 1, Len(path))
    IN  IF rel_list = <<>> THEN <<".">> ELSE Join(rel_list)

-----------------------------------------------------------------------------
(* AUTOLINK_RE (plugin.py line 22), as re matches it: greedy, with         *)
(* backtracking.  Its parts are quoted at the operators that match them.   *)

AUTOLINK_EXT == << <<"m", "d">>, <<"p", "n", "g">>, <<"j", "p", "g">>,
                   <<"j", "p", "e", "g">>, <<"b", "m", "p">>,
                   <<"g", "i", "f">> >>

\* Least index >= from whose character is in cs; 0 when there is none.
FirstIndex(t, from, cs) ==
    LET S == {i \in from..Len(t) : t[i] \in cs}
    IN  IF S = {} THEN 0 ELSE Min(S)

\* The label alternative at p, "![]" or "[" label "]": the index just after
\* it, 0 when it fails.  The label class excludes "]", so the label runs up
\* to the first "]" and must hold at least one character.
LabelEnd(t, p) ==
    IF IsAt(t, p, <<"!", "[", "]">>) THEN p + 3
    ELSE IF t[p] = "["
         THEN LET close == FirstIndex(t, p + 1, {"]"})
              IN  IF close > p + 1 THEN close + 1 ELSE 0
    ELSE 0

\* The extension of the alternation that matches at index i, <<>> if none.
ExtAt(t, i) ==
    LET S == {k \in 1..Len(AUTOLINK_EXT) : IsAt(t, i, AUTOLINK_EXT[k])}
    IN  IF S = {} THEN <<>> ELSE AUTOLINK_EXT[Min(S)]

\* The anchor groups and the closing ")" at e: the index of that ")", 0 when
\* it fails.  An anchor starts with "#" and cannot hold a ")".
TailClose(t, e) ==
    IF e > Len(t) THEN 0
    ELSE IF t[e] = ")" THEN e
    ELSE IF t[e] = "#" THEN FirstIndex(t, e, {")"})
    ELSE 0

\* The filename group from s (one or more characters other than ")" and "/",
\* a ".", an extension), then the tail: the index of the "." that re settles
\* on, 0 when no split matches.  The class is greedy, so the last "." that
\* leaves a match wins.
TargetDot(t, s) ==
    LET stop   == FirstIndex(t, s, {")", "/"})
        runEnd == IF stop = 0 THEN Len(t) ELSE stop - 1
        S == {d \in (s + 1)..runEnd :
                /\ t[d] = "."
                /\ ExtAt(t, d + 1) # <<>>
                /\ TailClose(t, d + 1 + Len(ExtAt(t, d + 1))) # 0}
    IN  IF S = {} THEN 0 ELSE Max(S)

\* re.match(AUTOLINK_RE, t, pos=p): the match object, None when there is none.
\* g0..g5 are match.group(0..5).
MatchAt(t, p) ==
    LET le == LabelEnd(t, p)
    IN  IF le = 0 \/ le > Len(t) \/ t[le] # "(" THEN None
        ELSE LET d == TargetDot(t, le + 1)
             IN  IF d = 0 THEN None
                 ELSE LET ext   == ExtAt(t, d + 1)
                          e     == d + 1 + Len(ext)
                          close == TailClose(t, e)
                      IN  [start |-> p, end |-> close,
                           g0 |-> SubSeq(t, p, close),
                           g1 |-> IF t[p] = "[" THEN SubSeq(t, p + 1, le - 2)
                                  ELSE NoGroup,
                           g2 |-> SubSeq(t, le + 1, close - 1),
                           g3 |-> SubSeq(t, le + 1, e - 1),
                           g4 |-> ext,
                           g5 |-> IF close > e THEN SubSeq(t, e, close - 1)
                                  ELSE NoGroup]

\* re.finditer(AUTOLINK_RE, t): the non-overlapping matches, leftmost first.
RECURSIVE FindFrom(_, _)
FindFrom(t, p) ==
    IF p > Len(t) THEN <<>>
    ELSE LET m == MatchAt(t, p)
         IN  IF m = None THEN FindFrom(t, p + 1)
             ELSE <<m>> \o FindFrom(t, m.end + 1)

FindAll(t) == FindFrom(t, 1)

-----------------------------------------------------------------------------
(* AutoLinkReplacer and re.sub.                                            *)

\* A variant that marks the reference instead of counting it.
CountMissingOnce(missing, filename, rel_page_path) ==
    LET counter == DefaultGet(missing, filename, <<>>)
    IN  DictSet(missing, filename, DictSet(counter, rel_page_path, 1))

\* self.missing_filenames[filename][rel_page_path] += 1
CountMissing(missing, filename, rel_page_path) ==
    LET counter == DefaultGet(missing, filename, <<>>)
        n       == DefaultGet(counter, rel_page_path, 0)
    IN  DictSet(missing, filename, DictSet(counter, rel_page_path, n + 1))

\* AutoLinkReplacer.__call__(match): the replacement text and the missing
\* registry after the call.
AutoLinkReplacer_call(base_docs_dir, abs_page_path, index, missing, match) ==
    LET filename       == Strip(match.g3)
        abs_linker_dir == dirname(abs_page_path)
    IN  IF ~DictHas(index, filename)
        THEN LET rel_page_path == relpath(abs_page_path, base_docs_dir)
             IN  [out     |-> match.g0,
                  missing |-> CountMissing(missing, filename, rel_page_path)]
        ELSE LET abs_link_path == DictGet(index, filename)
                 rel_link_path == quote(relpath(abs_link_path, abs_linker_dir))
             IN  [out     |-> StrReplace(match.g0, match.g3, rel_link_path),
                  missing |-> missing]

\* A variant that resumes copying at the match itself.
ResumeAtStart(m) == m.start

\* Where re.sub resumes copying the text after the match m.
ResumeAfter(m) == m.end + 1

\* re.sub over the matches ms[k..] of t, the text before pos already copied:
\* the output text, the replacement of each match, the missing registry.
RECURSIVE SubFrom(_, _, _, _, _, _, _, _)
SubFrom(t, ms, k, pos, base_docs_dir, abs_page_path, index, missing) ==
    IF k > Len(ms)
    THEN [out |-> SubSeq(t, pos, Len(t)), repl |-> <<>>, missing |-> missing]
    ELSE LET r    == AutoLinkReplacer_call(base_docs_dir, abs_page_path,
                                           index, missing, ms[k])
             rest == SubFrom(t, ms, k + 1, ResumeAfter(ms[k]), base_docs_dir,
                             abs_page_path, index, r.missing)
         IN  [out     |-> SubSeq(t, pos, ms[k].start - 1) \o r.out \o rest.out,
              repl    |-> <<r.out>> \o rest.repl,
              missing |-> rest.missing]

\* re.sub(AUTOLINK_RE, AutoLinkReplacer(...), markdown)
Sub(markdown, base_docs_dir, abs_page_path, index, missing) ==
    SubFrom(markdown, FindAll(markdown), 1, 1, base_docs_dir, abs_page_path,
            index, missing)

-----------------------------------------------------------------------------
(* AutoLinksPlugin.                                                        *)

\* config["docs_dir"]
docs_dir == << <<"d">> >>

\* A mkdocs File of the docs directory, from its path relative to it.
File(rel) == [abs_src_path |-> docs_dir \o rel, src_path |-> Join(rel)]

\* A variant without the "continue": a later file takes the index slot.
InitStepOverwrite(st, file_, base_docs_dir) ==
    LET filename == basename(file_.abs_src_path)
    IN  [index |-> DictSet(st.index, filename, file_.abs_src_path),
         dups  |-> IF DictHas(st.index, filename)
                   THEN DictSet(st.dups, filename,
                                Append(DefaultGet(st.dups, filename, <<>>),
                                       file_.src_path))
                   ELSE st.dups]

\* A variant that registers the colliding file only, never the indexed one.
InitStepNoFirst(st, file_, base_docs_dir) ==
    LET filename == basename(file_.abs_src_path)
    IN  IF DictHas(st.index, filename)
        THEN [index |-> st.index,
              dups  |-> DictSet(st.dups, filename,
                                Append(DefaultGet(st.dups, filename, <<>>),
                                       file_.src_path))]
        ELSE [index |-> DictSet(st.index, filename, file_.abs_src_path),
              dups  |-> st.dups]

\* One iteration of the loop of init_filename_to_abs_path.
InitStep(st, file_, base_docs_dir) ==
    LET filename == basename(file_.abs_src_path)
    IN  IF DictHas(st.index, filename)
        THEN LET seen  == DefaultGet(st.dups, filename, <<>>)
                 first == IF Len(seen) = 0
                          THEN <<relpath(DictGet(st.index, filename),
                                         base_docs_dir)>>
                          ELSE seen
             IN  [index |-> st.index,
                  dups  |-> DictSet(st.dups, filename,
                                    Append(first, file_.src_path))]
        ELSE [index |-> DictSet(st.index, filename, file_.abs_src_path),
              dups  |-> st.dups]

\* init_filename_to_abs_path(files, docs_dir): the index, started empty, and
\* the duplicate registry, started from the instance's.
RECURSIVE InitLoop(_, _, _)
InitLoop(st, fs, base_docs_dir) ==
    IF fs = <<>> THEN st
    ELSE InitLoop(InitStep(st, Head(fs), base_docs_dir), Tail(fs),
                  base_docs_dir)

init_filename_to_abs_path(fs, base_docs_dir, dups) ==
    InitLoop([index |-> <<>>, dups |-> dups], fs, base_docs_dir)

\* A variant that builds the index on every call.
NeedsInitAlways(index) == TRUE

\* The guard of on_page_markdown: the index is built when it is still None.
NeedsInit(index) == index = None

-----------------------------------------------------------------------------
(* generate_report: the literal parts of its f-strings, then the report.   *)

ReportHead ==
    <<"#", " ", "A", "u", "t", "o", "L", "i", "n", "k", "s", "P", "l", "u",
      "g", "i", "n", " ", "r", "e", "p", "o", "r", "t", "\n", "\n", "#",
      "#", " ", "D", "u", "p", "l", "i", "c", "a", "t", "e", " ", "f", "i",
      "l", "e", "n", "a", "m", "e", "s", "\n", "\n">>

ReportMiddle ==
    <<"\n", "\n", "#", "#", " ", "M", "i", "s", "s", "i", "n", "g", " ",
      "f", "i", "l", "e", "n", "a", "m", "e", "s", "\n", "\n">>

ItemOpen ==
    <<"-", " ", "[", " ", "]", " ">>

DupAt ==
    <<",", " ", "a", "t", " ">>

MissingIn ==
    <<",", " ", "i", "n", " ">>

FilesClose ==
    <<" ", "f", "i", "l", "e", "(", "s", ")">>

RefOpen ==
    <<" ", " ", "-", " ", Backtick>>

RefMiddle ==
    <<Backtick, " ", "(">>

RefClose ==
    <<" ", "o", "c", "c", "u", "r", "e", "n", "c", "e", "s", ")">>

\* One line of the duplicates section.
DuplicateLine(dups, filename) ==
    LET ps    == DictGet(dups, filename)
        paths == StrJoin(<<",", " ">>,
                         [i \in 1..Len(ps) |-> <<Backtick>> \o ps[i] \o <<Backtick>>])
    IN  ItemOpen \o filename \o DupAt \o paths

\* One entry of the missing section: its line, then a line per referencing
\* document, in the Counter's own order.
MissingEntry(missing, filename) ==
    LET refs     == DictGet(missing, filename)
        ref_strs == [i \in 1..Len(refs) |->
                        RefOpen \o refs[i][1] \o RefMiddle
                            \o Str(refs[i][2]) \o RefClose]
        refs_str  == StrJoin(<<"\n">>, ref_strs)
        num_files == Len(refs)
    IN  ItemOpen \o filename \o MissingIn \o Str(num_files) \o FilesClose
            \o <<"\n">> \o refs_str

\* A variant that walks the keys in insertion order.
ReportOrderUnsorted(keys) == keys

\* The order in which generate_report walks a registry's keys.
ReportOrder(keys) == Sorted(keys)

generate_report(dups, missing) ==
    LET dk == ReportOrder(DictKeys(dups))
        mk == ReportOrder(DictKeys(missing))
        duplicate_filenames_str ==
            StrJoin(<<"\n">>, [i \in 1..Len(dk) |-> DuplicateLine(dups, dk[i])])
        missing_filenames_str ==
            StrJoin(<<"\n">>, [i \in 1..Len(mk) |-> MissingEntry(missing, mk[i])])
    IN  ReportHead \o duplicate_filenames_str \o ReportMiddle
            \o missing_filenames_str \o <<"\n">>

-----------------------------------------------------------------------------
(* The inputs of the model: file collections, pages and page texts.        *)

Corpus1 ==
    <<File(<<<<"i", ".", "m", "d">>>>),
      File(<<<<"a">>, <<"x", ".", "p", "n", "g">>>>),
      File(<<<<"b">>, <<"x", ".", "p", "n", "g">>>>),
      File(<<<<"c">>, <<"x", ".", "p", "n", "g">>>>)>>

Corpus2 ==
    <<File(<<<<"b">>, <<"y", ".", "p", "n", "g">>>>),
      File(<<<<"i", ".", "m", "d">>>>),
      File(<<<<"a">>, <<"x", ".", "p", "n", "g">>>>),
      File(<<<<"c">>, <<"y", ".", "p", "n", "g">>>>),
      File(<<<<"b">>, <<"x", ".", "p", "n", "g">>>>),
      File(<<<<"a">>, <<"p", ".", "m", "d">>>>)>>

Corpus3 ==
    <<File(<<<<"a">>, <<"p", ".", "m", "d">>>>),
      File(<<<<"b">>, <<"x", ".", "p", "n", "g">>>>)>>

FileSeqs == {Corpus1, Corpus2, Corpus3}

RCorpus1 ==
    <<File(<<<<"i", ".", "m", "d">>>>),
      File(<<<<"a">>, <<"p", ".", "m", "d">>>>),
      File(<<<<"a">>, <<"x", ".", "p", "n", "g">>>>),
      File(<<<<"b">>, <<"y", ".", "p", "n", "g">>>>)>>

RCorpus2 ==
    <<File(<<<<"a">>, <<"p", ".", "m", "d">>>>),
      File(<<<<"a">>, <<"a", " ", "b", ".", "p", "n", "g">>>>),
      File(<<<<"b">>, <<"a", "%", "2", "0", "b", ".", "p", "n", "g">>>>),
      File(<<<<"a">>, <<"x", ".", "p", "n", "g", "]", "(", "x", ".", "p", "n", "g">>>>),
      File(<<<<"b">>, <<"x", ".", "p", "n", "g">>>>)>>

RFileSeqs == {RCorpus1, RCorpus2}

\* The pages of a build: its Markdown files.
IsPage(file_) ==
    LET n == Len(file_.src_path)
    IN  n >= 3 /\ SubSeq(file_.src_path, n - 2, n) = <<".", "m", "d">>

Pages(fs) == {fs[i] : i \in {j \in 1..Len(fs) : IsPage(fs[j])}}

Text1 ==
    <<"!", "[", "]", "(", "x", ".", "p", "n", "g", ")">>

Text2 ==
    <<"[", "l", "]", "(", "z", ".", "p", "n", "g", ")", "!", "[", "]", "(",
      "g", ".", "p", "n", "g", ")", "[", "k", "]", "(", "g", ".", "p", "n",
      "g", ")">>

Texts == {Text1, Text2}

Piece1 ==
    <<"[", "l", "]", "(", "x", ".", "p", "n", "g", ")">>

Piece2 ==
    <<"!", "[", "]", "(", "y", ".", "p", "n", "g", ")">>

Piece3 ==
    <<"[", "x", ".", "p", "n", "g", "]", "(", "x", ".", "p", "n", "g", ")">>

Piece4 ==
    <<"[", "l", "]", "(", "x", ".", "p", "n", "g", "#", "s", ")">>

Piece5 ==
    <<"[", "l", "]", "(", "x", ".", "p", "n", "g", "#", "y", ".", "m", "d",
      ")">>

Piece6 ==
    <<"[", "l", "]", "(", "x", ".", "p", "n", "g", "#", "/", "x", ".", "p",
      "n", "g", ")">>

Piece7 ==
    <<"[", "l", "]", "(", "x", ".", "p", "n", "g", "#", "/", "[", "k", ")">>

Piece8 ==
    <<"]", "(", "y", ".", "p", "n", "g", ")">>

Piece9 ==
    <<"[", "l", "]", "(", " ", "x", ".", "p", "n", "g", ")">>

Piece10 ==
    <<"[", "l", "]", "(", "a", " ", "b", ".", "p", "n", "g", ")">>

Piece11 ==
    <<"[", "x", ".", "p", "n", "g", "]", "(", "x", ".", "p", "n", "g", "]",
      "(", "x", ".", "p", "n", "g", ")">>

Piece12 ==
    <<"[", "l", "]", "(", "x", ".", "t", "x", "t", ")">>

Piece13 ==
    <<"[", "l", "]", "(", "g", ".", "p", "n", "g", ")">>

Piece14 ==
    <<"t">>

Pieces == {Piece1, Piece2, Piece3, Piece4, Piece5, Piece6, Piece7, Piece8, Piece9, Piece10, Piece11, Piece12, Piece13, Piece14}

\* The texts made of at most n pieces.
RECURSIVE TextsOf(_)
TextsOf(n) ==
    IF n = 0 THEN {<<>>}
    ELSE LET prev == TextsOf(n - 1)
         IN  prev \cup {t \o p : t \in prev, p \in Pieces}

RichTexts == TextsOf(MaxLinks)

-----------------------------------------------------------------------------
(* The plugin's handlers and the two specifications.                       *)

\* AutoLinksPlugin.__init__, before the first build's first page.
PluginInit ==
    /\ filename_to_abs_path = None
    /\ missing_filenames = <<>>
    /\ duplicate_filenames = <<>>
    /\ report_file = None
    /\ calls = <<>>
    /\ builds = 0

Init == PluginInit /\ files \in FileSeqs

\* on_page_markdown(markdown, page, config, files)
on_page_markdown(markdown, page, fs) ==
    LET st == IF NeedsInit(filename_to_abs_path)
              THEN init_filename_to_abs_path(fs, docs_dir, duplicate_filenames)
              ELSE [index |-> filename_to_abs_path.items,
                    dups  |-> duplicate_filenames]
        r  == Sub(markdown, docs_dir, page.abs_src_path, st.index,
                  missing_filenames)
    IN  /\ filename_to_abs_path' = [items |-> st.index]
        /\ duplicate_filenames' = st.dups
        /\ missing_filenames' = r.missing
        /\ calls' = Append(calls, [markdown |-> markdown, page |-> page,
                                   files |-> fs, build |-> builds,
                                   index |-> st.index, out |-> r.out,
                                   repl |-> r.repl])
        /\ UNCHANGED <<report_file, files, builds>>

\* on_post_build(config); the host then discovers the next build's files.
on_post_build(next_files) ==
    /\ report_file' = generate_report(duplicate_filenames, missing_filenames)
    /\ builds' = builds + 1
    /\ files' = next_files
    /\ UNCHANGED <<filename_to_abs_path, missing_filenames,
                   duplicate_filenames, calls>>

PageMarkdown ==
    /\ Len(calls) < MaxCalls
    /\ \E markdown \in Texts, page \in Pages(files) :
           on_page_markdown(markdown, page, files)

PostBuild ==
    /\ builds < MaxBuilds
    /\ \E next_files \in FileSeqs : on_post_build(next_files)

Next == PageMarkdown \/ PostBuild

Spec == Init /\ [][Next]_vars

\* The rewriter alone: one page of one build is rewritten, then its output
\* is rewritten again as the same page.
InitRewrite == PluginInit /\ files \in RFileSeqs

FirstPass ==
    /\ calls = <<>>
    /\ \E markdown \in RichTexts, page \in Pages(files) :
           on_page_markdown(markdown, page, files)

SecondPass ==
    /\ Len(calls) = 1
    /\ on_page_markdown(calls[1].out, calls[1].page, files)

NextRewrite == FirstPass \/ SecondPass

RewriteSpec == InitRewrite /\ [][NextRewrite]_vars

-----------------------------------------------------------------------------
(* What the claims speak of.                                               *)

Keys(d) == {d[i][1] : i \in 1..Len(d)}

NoRepeatedKey(d) == Len(d) = Cardinality(Keys(d))

\* The places of the files of fs whose basename is name, in discovery order.
Occurrences(fs, name) ==
    {j \in 1..Len(fs) : basename(fs[j].abs_src_path) = name}

RECURSIVE SrcPathsOf(_, _)
SrcPathsOf(fs, name) ==
    IF fs = <<>> THEN <<>>
    ELSE (IF basename(Head(fs).abs_src_path) = name
          THEN <<Head(fs).src_path>> ELSE <<>>) \o SrcPathsOf(Tail(fs), name)

\* The file sequence init_filename_to_abs_path ran over: that of the first
\* on_page_markdown call.
IndexedFiles == calls[1].files

\* The filename a match is looked up under, and whether the call c found it.
LookupName(m) == Strip(m.g3)

Resolves(c, m) == DictHas(c.index, LookupName(m))

\* The percent-encoded path of the file m resolves to, relative to the
\* directory of the page of call c.
ExpectedTarget(c, m) ==
    quote(relpath(DictGet(c.index, LookupName(m)),
                  dirname(c.page.abs_src_path)))

\* The target of a link's text: what follows its "](" up to the anchor or the
\* closing parenthesis.
LinkTarget(link) ==
    LET open  == Min({i \in 1..Len(link) : IsAt(link, i, <<"]", "(">>)})
        close == FirstIndex(link, open + 2, {"#", ")"})
    IN  SubSeq(link, open + 2, close - 1)

\* The match's text with the filename of its target, and nothing else,
\* replaced by new.
OnlyFilenameReplaced(m, new) ==
    LET before == Len(m.g0) - Len(m.g2) - 1
    IN  SubSeq(m.g0, 1, before) \o new
            \o SubSeq(m.g0, before + Len(m.g3) + 1, Len(m.g0))

\* The unresolved occurrences of filename in the document doc over all calls:
\* <<call, match>> pairs.
UnresolvedOccurrences(filename, doc) ==
    UNION {{<<j, i>> : i \in
               {n \in 1..Len(FindAll(calls[j].markdown)) :
                   /\ calls[j].page.src_path = doc
                   /\ LookupName(FindAll(calls[j].markdown)[n]) = filename
                   /\ ~Resolves(calls[j], FindAll(calls[j].markdown)[n])}} :
           j \in 1..Len(calls)}

RECURSIVE Split(_, _)
Split(t, sep) ==
    LET i == FirstIndex(t, 1, {sep})
    IN  IF i = 0 THEN <<t>>
        ELSE <<SubSeq(t, 1, i - 1)>> \o Split(SubSeq(t, i + 1, Len(t)), sep)

StartsWith(t, w) == IsAt(t, 1, w)

NonEmpty(line) == line # <<>>

DuplicatesHeading ==
    <<"#", "#", " ", "D", "u", "p", "l", "i", "c", "a", "t", "e", " ", "f",
      "i", "l", "e", "n", "a", "m", "e", "s">>

MissingHeading ==
    <<"#", "#", " ", "M", "i", "s", "s", "i", "n", "g", " ", "f", "i", "l",
      "e", "n", "a", "m", "e", "s">>

IsAscending(ks) == \A i, j \in 1..Len(ks) : i < j => StrLess(ks[i], ks[j])

\* The lines of the report's duplicates section and of its missing section.
DuplicateLines(report) ==
    LET ls == Split(report, "\n")
        d  == Min({i \in 1..Len(ls) : ls[i] = DuplicatesHeading})
        m  == Min({i \in 1..Len(ls) : ls[i] = MissingHeading})
    IN  SelectSeq(SubSeq(ls, d + 1, m - 1), NonEmpty)

MissingLines(report) ==
    LET ls == Split(report, "\n")
        m  == Min({i \in 1..Len(ls) : ls[i] = MissingHeading})
    IN  SelectSeq(SubSeq(ls, m + 1, Len(ls)), NonEmpty)

IsEntryLine(line) == StartsWith(line, ItemOpen)

\* The report has one line per duplicate basename, ascending by basename.
DuplicatesSectionOK(report, dups) ==
    LET ls == DuplicateLines(report)
        keyOf(k) == CHOOSE f \in Keys(dups) :
                        StartsWith(ls[k], ItemOpen \o f \o DupAt)
    IN  /\ Len(ls) = Cardinality(Keys(dups))
        /\ \A k \in 1..Len(ls) :
              \E f \in Keys(dups) : StartsWith(ls[k], ItemOpen \o f \o DupAt)
        /\ IsAscending([k \in 1..Len(ls) |-> keyOf(k)])

\* The report has one entry per missing basename, ascending by basename;
\* each states its number of referencing documents and is followed by one
\* indented line per referencing document, with that document's count.
MissingSectionOK(report, missing) ==
    LET ls  == MissingLines(report)
        at  == {k \in 1..Len(ls) : IsEntryLine(ls[k])}
        entryLine(f) == ItemOpen \o f \o MissingIn
                            \o Str(Len(DictGet(missing, f))) \o FilesClose
        refLine(ref) == RefOpen \o ref[1] \o RefMiddle \o Str(ref[2])
                            \o RefClose
        keyOf(k) == CHOOSE f \in Keys(missing) : ls[k] = entryLine(f)
        \* the lines after the entry at k, up to the next entry
        refsOf(k) == LET later == {n \in at : n > k}
                         stop  == IF later = {} THEN Len(ls) + 1
                                  ELSE Min(later)
                     IN  SubSeq(ls, k + 1, stop - 1)
    IN  /\ Cardinality(at) = Cardinality(Keys(missing))
        /\ ls # <<>> => 1 \in at
        /\ \A k \in at : \E f \in Keys(missing) : ls[k] = entryLine(f)
        /\ \A k, n \in at : k < n => StrLess(keyOf(k), keyOf(n))
        /\ \A k \in at :
              LET refs == DictGet(missing, keyOf(k))
              IN  /\ Len(refsOf(k)) = Len(refs)
                  /\ NoRepeatedKey(refs)
                  /\ \A r \in 1..Len(refs) :
                        \E n \in 1..Len(refsOf(k)) :
                            refsOf(k)[n] = refLine(refs[r])

\* The report file is that of the registries as they are now: a build has
\* ended and no page was rewritten since.
ReportIsCurrent ==
    /\ builds > 0
    /\ calls # <<>> => calls[Len(calls)].build < builds

\* Percent-encoding leaves every basename of the index as it is.
IndexKeysEncodeToThemselves(index) ==
    \A i \in 1..Len(index) : quote(index[i][1]) = index[i][1]

\* No link recognized in the text carries an anchor.
NoAnchors(t) ==
    \A i \in 1..Len(FindAll(t)) : FindAll(t)[i].g5 = NoGroup

-----------------------------------------------------------------------------
(* The claims.                                                             *)

\* C1: after init_filename_to_abs_path has run over a file sequence, the
\* index has exactly one entry per basename of the sequence, and the entry is
\* the absolute path of the first file with that basename.
C1_IndexFirstWins ==
    calls # <<>> =>
        LET index == filename_to_abs_path.items
            fs    == IndexedFiles
        IN  /\ Keys(index) =
                   {basename(fs[j].abs_src_path) : j \in 1..Len(fs)}
            /\ NoRepeatedKey(index)
            /\ \A i \in 1..Len(index) :
                  index[i][2] =
                      fs[Min(Occurrences(fs, index[i][1]))].abs_src_path

\* C1 witness: the index was built from files of which two share a basename.
C1_Witness ==
    /\ calls # <<>>
    /\ Len(filename_to_abs_path.items) < Len(IndexedFiles)

\* C2: after init_filename_to_abs_path has run, a basename is a key of the
\* duplicate registry exactly when it occurs at least twice in the file
\* sequence, and its entry lists the relative paths of all its occurrences in
\* discovery order, the indexed file first.
C2_DuplicateRegistry ==
    calls # <<>> =>
        LET fs == IndexedFiles
        IN  /\ Keys(duplicate_filenames) =
                   {basename(fs[j].abs_src_path) : j \in
                       {n \in 1..Len(fs) :
                           Cardinality(Occurrences(
                               fs, basename(fs[n].abs_src_path))) >= 2}}
            /\ NoRepeatedKey(duplicate_filenames)
            /\ \A i \in 1..Len(duplicate_filenames) :
                  /\ duplicate_filenames[i][2] =
                         SrcPathsOf(fs, duplicate_filenames[i][1])
                  /\ Len(duplicate_filenames[i][2]) =
                         Cardinality(Occurrences(fs, duplicate_filenames[i][1]))

\* C2 witness: a basename that occurs three times is registered.
C2_Witness ==
    /\ calls # <<>>
    /\ \E i \in 1..Len(duplicate_filenames) :
          Len(duplicate_filenames[i][2]) >= 3

\* C3: every recognized link whose filename is in the index is rewritten so
\* that its target is the percent-encoded path of the indexed file relative
\* to the directory of the linking document.
C3_TargetIsEncodedRelativePath ==
    \A j \in 1..Len(calls) :
        LET ms == FindAll(calls[j].markdown)
        IN  \A i \in 1..Len(ms) :
                Resolves(calls[j], ms[i]) =>
                    LinkTarget(calls[j].repl[i]) = ExpectedTarget(calls[j], ms[i])

\* C4: when a recognized link resolves, only the filename of its target is
\* replaced: label, brackets, parentheses and anchor are as in the input.
C4_OnlyFilenameReplaced ==
    \A j \in 1..Len(calls) :
        LET ms == FindAll(calls[j].markdown)
        IN  \A i \in 1..Len(ms) :
                Resolves(calls[j], ms[i]) =>
                    calls[j].repl[i] =
                        OnlyFilenameReplaced(ms[i], ExpectedTarget(calls[j], ms[i]))

\* C5: a recognized link whose filename is not in the index is left as it
\* is, and each count of the missing registry is the number of unresolved
\* occurrences of that filename in that document over all the calls made.
C5_MissingCounted ==
    /\ \A j \in 1..Len(calls) :
          LET ms == FindAll(calls[j].markdown)
          IN  /\ Len(calls[j].repl) = Len(ms)
              /\ \A i \in 1..Len(ms) :
                    ~Resolves(calls[j], ms[i]) =>
                        /\ calls[j].repl[i] = ms[i].g0
                        /\ DictHas(missing_filenames, LookupName(ms[i]))
                        /\ DictHas(DictGet(missing_filenames, LookupName(ms[i])),
                                   calls[j].page.src_path)
              /\ (\A i \in 1..Len(ms) : ~Resolves(calls[j], ms[i])) =>
                     calls[j].out = calls[j].markdown
    /\ NoRepeatedKey(missing_filenames)
    /\ \A f \in 1..Len(missing_filenames) :
          LET refs == missing_filenames[f][2]
          IN  /\ NoRepeatedKey(refs)
              /\ \A r \in 1..Len(refs) :
                    refs[r][2] = Cardinality(UnresolvedOccurrences(
                                     missing_filenames[f][1], refs[r][1]))

\* C5 witness: one document holds two unresolved links to the same filename.
C5_Witness ==
    \E f \in 1..Len(missing_filenames) :
        \E r \in 1..Len(missing_filenames[f][2]) :
            missing_filenames[f][2][r][2] >= 2

\* C6: the links of every build are resolved against an index built from
\* that build's own file sequence.
C6_IndexRebuiltEachBuild ==
    \A j \in 1..Len(calls) :
        calls[j].out =
            Sub(calls[j].markdown, docs_dir, calls[j].page.abs_src_path,
                init_filename_to_abs_path(calls[j].files, docs_dir, <<>>).index,
                <<>>).out

\* C7: the report written at the end of a build has one line per duplicate
\* basename and one entry per missing basename, each section ascending by
\* basename; a missing entry states its number of referencing documents and
\* is followed by one indented line per referencing document, with its count.
C7_ReportSections ==
    ReportIsCurrent =>
        /\ report_file =
               generate_report(duplicate_filenames, missing_filenames)
        /\ DuplicatesSectionOK(report_file, duplicate_filenames)
        /\ MissingSectionOK(report_file, missing_filenames)

\* C7 witness: a report is written with two duplicate basenames and two
\* missing basenames, one of them referenced from two documents.
C7_Witness ==
    /\ ReportIsCurrent
    /\ Len(duplicate_filenames) >= 2
    /\ Len(missing_filenames) >= 2
    /\ \E f \in 1..Len(missing_filenames) : Len(missing_filenames[f][2]) >= 2

\* C8: the index is None exactly until the first on_page_markdown call; once
\* built, no step changes the index or the duplicate registry, and a page
\* rewrite changes nothing else but the missing registry.
C8_IndexBuiltOnce ==
    [][/\ (calls = <<>>) <=> (filename_to_abs_path = None)
       /\ (calls' = <<>>) <=> (filename_to_abs_path' = None)
       /\ filename_to_abs_path # None =>
              /\ filename_to_abs_path' = filename_to_abs_path
              /\ duplicate_filenames' = duplicate_filenames
       /\ calls' # calls => report_file' = report_file]_vars

\* C8 witness: a second page of the same build was rewritten, with duplicates
\* registered and a missing reference counted.
C8_Witness ==
    /\ Len(calls) >= 2
    /\ calls[2].build = calls[1].build
    /\ duplicate_filenames # <<>>
    /\ missing_filenames # <<>>

C10_LookupExcludesAnchor ==
    \A j \in 1..Len(calls) :
        LET ms == FindAll(calls[j].markdown)
        IN  \A i \in 1..Len(ms) :
                FirstIndex(ms[i].g2, 1, {"#"}) # 0 =>
                    LookupName(ms[i]) =
                        Strip(SubSeq(ms[i].g2, 1,
                                     FirstIndex(ms[i].g2, 1, {"#"}) - 1))

====
